---- MODULE Spec2Model ----
(***************************************************************************)
(* Sequoia IPC (ipc/src/lib.rs): rendezvous file, cookie handshake,        *)
(* connect_with_policy / bootstrap on the client side, serve_listener on   *)
(* the server side.                                                        *)
(*                                                                         *)
(* Bytes are integers 0..255.  The rendezvous file is a sequence of bytes. *)
(* A TCP connection is the record of what its client end has written.      *)
(***************************************************************************)
EXTENDS Integers, Sequences, FiniteSets, TLC

VARIABLES
    file,        \* content of the rendezvous file (absent = empty)
    holders,     \* callers holding the exclusive lock of the rendezvous file
    cl,          \* per caller: position in connect_with_policy / bootstrap, locals
    srv,         \* servers started so far, in order of their bind()
    ctx,         \* the descriptor's Context: ipc_policy, home, lib, ephemeral
    access,      \* TRUE while every read, write and clear of the file so far was made by a lock holder
    intruded,    \* connections opened so far by processes other than the callers
    hd,          \* a CookieFile handle used on its own: its offset and the calls made on it
    wsa          \* Windows builds: the process's Winsock state (WSA_INITED, startup, cleanup)

vars == <<file, holders, cl, srv, ctx, access, intruded, hd, wsa>>

(* ------------------------------ bounds -------------------------------- *)

NClients == 2
MaxServers == 2
NCookies == 2
MaxIntruder == 1
MaxOps == 3

Clients == 1..NClients
CookieIds == 1..NCookies

(* ------------------------------ cookies ------------------------------- *)

SIZE == 32

\* The values Cookie::new() draws from the RNG are taken from NCookies byte strings.
CookieBytes(k) == [i \in 1..SIZE |-> k]

\* memsec::memeq(a, b, n): the first n bytes agree.
MemEq(a, b, n) == \A i \in 1..n : a[i] = b[i]

\* A comparison that stops after the first byte.
CookieEqFirstByte(a, b) == Len(a) = Len(b) /\ (Len(a) > 0 => a[1] = b[1])

\* impl PartialEq for Cookie
CookieEq(a, b) == Len(a) = Len(b) /\ MemEq(a, b, Len(a))

None == [some |-> FALSE, cookie |-> <<>>, rest |-> <<>>]

\* An extract that wants more than a cookie.
ExtractStrict(buf) ==
    IF Len(buf) > SIZE
    THEN [some |-> TRUE, cookie |-> SubSeq(buf, 1, SIZE),
          rest |-> SubSeq(buf, SIZE + 1, Len(buf))]
    ELSE None

\* Cookie::extract
Extract(buf) ==
    IF Len(buf) >= SIZE
    THEN [some |-> TRUE, cookie |-> SubSeq(buf, 1, SIZE),
          rest |-> SubSeq(buf, SIZE + 1, Len(buf))]
    ELSE None

\* Cookie::receive / Cookie::receive_async: read_exact of SIZE bytes from what
\* the peer has written; fewer than SIZE bytes before the peer closes is an error.
ReceiveOk(data) == Len(data) >= SIZE
Receive(data) == SubSeq(data, 1, SIZE)

(* ------------------------------ addresses ----------------------------- *)

\* "127.0.0.1"
Loopback == <<49, 50, 55, 46, 48, 46, 48, 46, 49>>

RECURSIVE Decimal(_)
Decimal(n) == IF n < 10 THEN <<48 + n>> ELSE Decimal(n \div 10) \o <<48 + (n % 10)>>

RECURSIVE DigitsValue(_)
DigitsValue(d) ==
    IF d = <<>> THEN 0
    ELSE 10 * DigitsValue(SubSeq(d, 1, Len(d) - 1)) + (d[Len(d)] - 48)

\* format!("{}", addr) of a loopback SocketAddr
FormatAddr(port) == Loopback \o <<58>> \o Decimal(port)

\* String::from_utf8(rest) then rest.parse::<SocketAddr>(), on loopback texts:
\* the port, or -1 when either step fails.
ParseSocketAddr(b) ==
    LET n == Len(Loopback) IN
    IF /\ \A i \in 1..Len(b) : b[i] < 128
       /\ Len(b) > n + 1
       /\ SubSeq(b, 1, n) = Loopback
       /\ b[n + 1] = 58
       /\ \A i \in (n + 2)..Len(b) : b[i] \in 48..57
       /\ DigitsValue(SubSeq(b, n + 2, Len(b))) <= 65535
    THEN DigitsValue(SubSeq(b, n + 2, Len(b)))
    ELSE -1

\* The port the kernel assigns to the s-th listener bound to 127.0.0.1:0
\* (10000, 9999, ..: the texts of later addresses are shorter).
Port(s) == 10001 - s

\* A record whose address nobody listens on (127.0.0.1:1).
StaleRecord == CookieBytes(1) \o Loopback \o <<58, 49>>

InitFiles == {<<>>, StaleRecord}

\* A record left by a server that is gone, whose port the kernel assigns again to
\* the next listener.
ReusedPortRecord == CookieBytes(NCookies) \o FormatAddr(Port(1))

(* ------------------------------ rendezvous file ----------------------- *)

\* File::set_len
SetLen(f, n) ==
    IF n <= Len(f) THEN SubSeq(f, 1, n)
    ELSE f \o [i \in 1..(n - Len(f)) |-> 0]

\* File::write_all at offset pos
WriteAt(f, pos, bytes) ==
    LET g == IF pos > Len(f) THEN SetLen(f, pos) ELSE f
        end == pos + Len(bytes)
    IN  SubSeq(g, 1, pos) \o bytes \o SubSeq(g, end + 1, Len(g))

\* flock(LOCK_EX) as taken by CookieFile::open: granted when nobody holds it.
LockAvailableAlways(h) == TRUE

LockAvailable(h) == h = {}

\* A read that starts at the end of the file.
FileReadAtEnd(f, pos) == Extract(SubSeq(f, Len(f) + 1, Len(f)))

\* CookieFile::read on a handle at offset pos: read_to_end, then Cookie::extract.
FileRead(f, pos) == Extract(SubSeq(f, pos + 1, Len(f)))

\* A write that rewinds but does not truncate.
FileWriteNoTruncate(f, cookie, data) ==
    WriteAt(WriteAt(f, 0, cookie), Len(cookie), data)

\* CookieFile::write: rewind, set_len(0), write the cookie, write the data.
FileWrite(f, cookie, data) ==
    LET f0 == SetLen(f, 0)
        f1 == WriteAt(f0, 0, cookie)
    IN  WriteAt(f1, Len(cookie), data)

\* A clear that leaves the content in place.
FileClearNoop(f) == f

\* CookieFile::clear
FileClear(f) == SetLen(f, 0)

Access(c) == access /\ c \in holders

\* A return that keeps the handle open.
ReleaseNever(h, c) == h

\* drop(file), explicit or at return: the handle is closed and its lock released.
Release(h, c) == h \ {c}

(* ------------------------------ policies ------------------------------ *)

\* core::IPCPolicy
Policies == {"Internal", "External", "Robust"}

Invocation(policy, external, ok) == [policy |-> policy, external |-> external, ok |-> ok]

\* A Robust that tries the thread first and the process second.
LaunchInternalFirst(policy, forkOk, spawnOk) ==
    CASE policy = "Internal" ->
            [ok |-> spawnOk, external |-> FALSE,
             inv |-> <<Invocation(policy, FALSE, spawnOk)>>]
      [] policy = "External" ->
            [ok |-> forkOk, external |-> TRUE,
             inv |-> <<Invocation(policy, TRUE, forkOk)>>]
      [] policy = "Robust" ->
            IF spawnOk
            THEN [ok |-> TRUE, external |-> FALSE,
                  inv |-> <<Invocation(policy, FALSE, TRUE)>>]
            ELSE [ok |-> forkOk, external |-> TRUE,
                  inv |-> <<Invocation(policy, FALSE, FALSE),
                            Invocation(policy, TRUE, forkOk)>>]

\* The match on the policy in connect_with_policy: which start(external) calls
\* are made, in order, and what the match yields.  forkOk: Command::spawn
\* succeeds in fork; spawnOk: start(false) succeeds.
Launch(policy, forkOk, spawnOk) ==
    CASE policy = "Internal" ->
            [ok |-> spawnOk, external |-> FALSE,
             inv |-> <<Invocation(policy, FALSE, spawnOk)>>]
      [] policy = "External" ->
            [ok |-> forkOk, external |-> TRUE,
             inv |-> <<Invocation(policy, TRUE, forkOk)>>]
      [] policy = "Robust" ->
            IF forkOk
            THEN [ok |-> TRUE, external |-> TRUE,
                  inv |-> <<Invocation(policy, TRUE, TRUE)>>]
            ELSE [ok |-> spawnOk, external |-> FALSE,
                  inv |-> <<Invocation(policy, TRUE, FALSE),
                            Invocation(policy, FALSE, spawnOk)>>]

\* The contexts a descriptor is built with.
Contexts ==
    [ipc_policy : Policies, home : {"/home"}, lib : {"/lib"}, ephemeral : BOOLEAN]

\* bool::to_string
BoolToString(b) == IF b THEN "true" ELSE "false"

\* Descriptor::fork: the argv of the child, args[0] first.
ForkArgv(exe, c) ==
    <<exe, "--home", c.home, "--lib", c.lib, "--ephemeral", BoolToString(c.ephemeral),
      "--socket", "0">>

\* Server::context on argv args (args[0] is args[1] here): "ok", or the error.
Context(args) ==
    IF \/ Len(args) # 7
       \/ args[2] # "--home"
       \/ args[4] # "--lib"
       \/ args[6] # "--ephemeral"
    THEN "usage"
    ELSE IF args[7] \in {"true", "false"} THEN "ok" ELSE "expected_bool"

(* ------------------------------ servers ------------------------------- *)

\* A listener handed to Server::serve_listener, before its first accept.
NewServer(external, argv) ==
    [external |-> external, argv |-> argv, state |-> "init", expected |-> <<>>,
     backlog |-> <<>>, init |-> {}, session |-> {}, lastdrop |-> {}, why |-> "none"]

\* serve_listener has returned: the listener is closed, pending connections are reset.
\* why: the statement whose error it returned.
Dead(r, why) ==
    [external |-> r.external, argv |-> <<>>, state |-> "dead", expected |-> <<>>,
     backlog |-> <<>>, init |-> {}, session |-> {}, lastdrop |-> {}, why |-> why]

\* start(external): what the new server is started with.
Started(external) ==
    NewServer(external, IF external THEN ForkArgv("exe", ctx) ELSE <<>>)

Servers == 1..Len(srv)

ServerAt(port) == 10001 - port

\* TcpStream::connect(addr) succeeds while the listener bound to addr is open.
Listening(port) == ServerAt(port) \in Servers /\ srv[ServerAt(port)].state # "dead"

Conn(c, kind, data) == [from |-> c, kind |-> kind, data |-> data]

\* A connection established to server s on which the client has written data.
Push(s, conn) == [srv EXCEPT ![s].backlog = Append(@, conn)]

(* ------------------------------ callers ------------------------------- *)

Idle ==
    [pc |-> "idle", op |-> "none", arg |-> "none", policy |-> "none",
     cookie |-> <<>>, port |-> 0, external |-> FALSE, pos |-> 0,
     inv |-> <<>>, restarts |-> 0, res |-> "none"]

\* Descriptor::connect_with_policy, entered with policy p
ConnectWithPolicy(r, p) == [r EXCEPT !.pc = "open", !.policy = p]

\* Descriptor::connect
Connect(r) == ConnectWithPolicy(r, ctx.ipc_policy)

\* Step 6 that registers every server it started.
RegisterFileAlways(f, external, cookie, port) == FileWrite(f, cookie, FormatAddr(port))

\* Step 6 that registers nothing.
RegisterFileNever(f, external, cookie, port) == f

\* Step 6 that writes a cookie other than the one sent on the initialization connection.
RegisterFileOtherCookie(f, external, cookie, port) ==
    IF external
    THEN FileWrite(f, [cookie EXCEPT ![SIZE] = (@ + 128) % 256], FormatAddr(port))
    ELSE f

\* connect_with_policy: if external { file.write(&cookie, format!("{}", addr)) }
RegisterFile(f, external, cookie, port) ==
    IF external THEN FileWrite(f, cookie, FormatAddr(port)) ELSE f

\* A bootstrap that forks the executable.
BootstrapExternalTrue == TRUE

\* bootstrap: self.start(false)
BootstrapExternal == FALSE

Return(r, res) == [r EXCEPT !.pc = "done", !.res = res, !.pos = 0]

\* No CookieFile handle is used on its own.
NoHandle == [pos |-> 0, log |-> <<>>]

\* Builds without cfg(windows): no constructor, no destructor.
NoWsa == [phase |-> "main", inited |-> FALSE, ret |-> 0, startups |-> 0, cleanups |-> 0]

TypeOK ==
    /\ holders \subseteq Clients
    /\ ctx.ipc_policy \in Policies
    /\ intruded \in 0..MaxIntruder
    /\ Len(srv) <= MaxServers

Init ==
    /\ file \in InitFiles
    /\ holders = {}
    /\ cl = [c \in Clients |-> Idle]
    /\ srv = <<>>
    /\ ctx \in Contexts
    /\ ctx.ephemeral = FALSE
    /\ access = TRUE
    /\ intruded = 0
    /\ hd = NoHandle
    /\ wsa = NoWsa

\* A caller calls connect_with_policy(p); connect() is the call with p = ctx.ipc_policy.
CallConnect(c, p) ==
    /\ cl[c].pc = "idle"
    /\ cl' = [cl EXCEPT ![c] = ConnectWithPolicy([@ EXCEPT !.op = "connect", !.arg = p], p)]
    /\ UNCHANGED <<hd, wsa, file, holders, srv, ctx, access, intruded>>

\* A caller calls bootstrap().
CallBootstrap(c) ==
    /\ cl[c].pc = "idle"
    /\ cl' = [cl EXCEPT ![c] = [@ EXCEPT !.op = "bootstrap", !.pc = "bopen"]]
    /\ UNCHANGED <<hd, wsa, file, holders, srv, ctx, access, intruded>>

\* CookieFile::open: open (creating the file) and lock_exclusive.
COpen(c) ==
    /\ cl[c].pc \in {"open", "bopen"}
    /\ LockAvailable(holders)
    /\ holders' = holders \cup {c}
    /\ cl' = [cl EXCEPT ![c] = [@ EXCEPT !.pos = 0,
                 !.pc = IF cl[c].pc = "open" THEN "read" ELSE "bread"]]
    /\ UNCHANGED <<hd, wsa, file, srv, ctx, access, intruded>>

\* connect_with_policy, record present and reachable: do_connect and return.
CReuse(c) ==
    /\ cl[c].pc = "read"
    /\ LET r == FileRead(file, cl[c].pos)
           port == ParseSocketAddr(r.rest)
       IN  /\ r.some
           /\ port # -1
           /\ Listening(port)
           /\ srv' = Push(ServerAt(port), Conn(c, "session", r.cookie))
           /\ cl' = [cl EXCEPT ![c] = Return([@ EXCEPT !.cookie = r.cookie,
                        !.port = port, !.pos = Len(file)], "session")]
    /\ access' = Access(c)
    /\ holders' = Release(holders, c)
    /\ UNCHANGED <<hd, wsa, file, ctx, intruded>>

\* connect_with_policy, record present and reachable, but do_connect fails: in
\* cookie.send (nothing was written) or, after the cookie was sent, in
\* set_nonblocking / from_std / set_nodelay.  The `?` returns the error; the
\* stream and the file are dropped.
CReuseFail(c, sent) ==
    /\ cl[c].pc = "read"
    /\ LET r == FileRead(file, cl[c].pos)
           port == ParseSocketAddr(r.rest)
       IN  /\ r.some
           /\ port # -1
           /\ Listening(port)
           /\ srv' = Push(ServerAt(port),
                          Conn(c, "failed", IF sent THEN r.cookie ELSE <<>>))
           /\ cl' = [cl EXCEPT ![c] = Return([@ EXCEPT !.cookie = r.cookie,
                        !.port = port, !.pos = Len(file)], "io_error")]
    /\ access' = Access(c)
    /\ holders' = Release(holders, c)
    /\ UNCHANGED <<hd, wsa, file, ctx, intruded>>

\* connect_with_policy, record present but unusable: clear, drop, self.connect().
CStale(c) ==
    /\ cl[c].pc = "read"
    /\ LET r == FileRead(file, cl[c].pos)
           port == ParseSocketAddr(r.rest)
       IN  /\ r.some
           /\ ~(port # -1 /\ Listening(port))
    /\ file' = FileClear(file)
    /\ access' = Access(c)
    /\ holders' = Release(holders, c)
    /\ cl' = [cl EXCEPT ![c] = Connect([@ EXCEPT !.restarts = @ + 1])]
    /\ UNCHANGED <<hd, wsa, srv, ctx, intruded>>

\* connect_with_policy, no record: Cookie::new() and the launch succeed.
CStart(c, k, forkOk, spawnOk) ==
    /\ cl[c].pc = "read"
    /\ ~FileRead(file, cl[c].pos).some
    /\ Len(srv) < MaxServers
    /\ LET l == Launch(cl[c].policy, forkOk, spawnOk) IN
           /\ l.ok
           /\ srv' = Append(srv, Started(l.external))
           /\ cl' = [cl EXCEPT ![c] = [@ EXCEPT !.pc = "init", !.cookie = CookieBytes(k),
                        !.port = Port(Len(srv) + 1), !.external = l.external,
                        !.pos = Len(file), !.inv = @ \o l.inv]]
    /\ access' = Access(c)
    /\ UNCHANGED <<hd, wsa, file, holders, ctx, intruded>>

\* connect_with_policy, no record: the launch fails and the error is returned.
CStartFail(c, forkOk, spawnOk) ==
    /\ cl[c].pc = "read"
    /\ ~FileRead(file, cl[c].pos).some
    /\ LET l == Launch(cl[c].policy, forkOk, spawnOk) IN
           /\ ~l.ok
           /\ cl' = [cl EXCEPT ![c] = Return([@ EXCEPT !.pos = Len(file),
                        !.inv = @ \o l.inv], "launch_error")]
    /\ access' = Access(c)
    /\ holders' = Release(holders, c)
    /\ UNCHANGED <<hd, wsa, file, srv, ctx, intruded>>

\* A cold start that goes on to write the record without the initialization connection.
CInitNoSend(c) ==
    /\ cl[c].pc = "init"
    /\ Listening(cl[c].port)
    /\ cl' = [cl EXCEPT ![c].pc = "register"]
    /\ UNCHANGED <<hd, wsa, file, holders, srv, ctx, access, intruded>>

\* cookie.send(&mut TcpStream::connect(addr)?)?: the initialization connection.
CInit(c) ==
    /\ cl[c].pc = "init"
    /\ Listening(cl[c].port)
    /\ srv' = Push(ServerAt(cl[c].port), Conn(c, "init", cl[c].cookie))
    /\ cl' = [cl EXCEPT ![c].pc = "register"]
    /\ UNCHANGED <<hd, wsa, file, holders, ctx, access, intruded>>

CInitFail(c) ==
    /\ cl[c].pc = "init"
    /\ ~Listening(cl[c].port)
    /\ cl' = [cl EXCEPT ![c] = Return(@, "io_error")]
    /\ holders' = Release(holders, c)
    /\ UNCHANGED <<hd, wsa, file, srv, ctx, access, intruded>>

\* if external { file.write(..) }; drop(file)
CRegister(c) ==
    /\ cl[c].pc = "register"
    /\ file' = RegisterFile(file, cl[c].external, cl[c].cookie, cl[c].port)
    /\ access' = Access(c)
    /\ holders' = Release(holders, c)
    /\ cl' = [cl EXCEPT ![c] = [@ EXCEPT !.pc = "session", !.pos = 0]]
    /\ UNCHANGED <<hd, wsa, srv, ctx, intruded>>

\* do_connect(cookie, TcpStream::connect(addr)?)
CSession(c) ==
    /\ cl[c].pc = "session"
    /\ Listening(cl[c].port)
    /\ srv' = Push(ServerAt(cl[c].port), Conn(c, "session", cl[c].cookie))
    /\ cl' = [cl EXCEPT ![c] = Return(@, "session")]
    /\ UNCHANGED <<hd, wsa, file, holders, ctx, access, intruded>>

CSessionFail(c) ==
    /\ cl[c].pc = "session"
    /\ ~Listening(cl[c].port)
    /\ cl' = [cl EXCEPT ![c] = Return(@, "io_error")]
    /\ UNCHANGED <<hd, wsa, file, holders, srv, ctx, access, intruded>>

(* ------------------------------ bootstrap ----------------------------- *)

\* bootstrap: the record names a server that accepts the connection and the
\* cookie: return Ok(None).
BRunning(c) ==
    /\ cl[c].pc = "bread"
    /\ LET r == FileRead(file, cl[c].pos)
           port == ParseSocketAddr(r.rest)
       IN  /\ r.some
           /\ port # -1
           /\ Listening(port)
           /\ srv' = Push(ServerAt(port), Conn(c, "probe", r.cookie))
           /\ cl' = [cl EXCEPT ![c] = Return([@ EXCEPT !.cookie = r.cookie,
                        !.port = port, !.pos = Len(file)], "running")]
    /\ access' = Access(c)
    /\ holders' = Release(holders, c)
    /\ UNCHANGED <<hd, wsa, file, ctx, intruded>>

BootstrapMustStart(f, pos) ==
    LET r == FileRead(f, pos)
        port == ParseSocketAddr(r.rest)
    IN  ~(r.some /\ port # -1 /\ Listening(port))

\* bootstrap: otherwise Cookie::new() and self.start(false).
BStart(c, k) ==
    /\ cl[c].pc = "bread"
    /\ BootstrapMustStart(file, cl[c].pos)
    /\ Len(srv) < MaxServers
    /\ srv' = Append(srv, Started(BootstrapExternal))
    /\ cl' = [cl EXCEPT ![c] = [@ EXCEPT !.pc = "bregister", !.cookie = CookieBytes(k),
                 !.port = Port(Len(srv) + 1), !.external = BootstrapExternal,
                 !.pos = Len(file),
                 !.inv = Append(@, Invocation("bootstrap", BootstrapExternal, TRUE))]]
    /\ access' = Access(c)
    /\ UNCHANGED <<hd, wsa, file, holders, ctx, intruded>>

BStartFail(c) ==
    /\ cl[c].pc = "bread"
    /\ BootstrapMustStart(file, cl[c].pos)
    /\ cl' = [cl EXCEPT ![c] = Return([@ EXCEPT !.pos = Len(file),
                 !.inv = Append(@, Invocation("bootstrap", BootstrapExternal, FALSE))],
                 "launch_error")]
    /\ access' = Access(c)
    /\ holders' = Release(holders, c)
    /\ UNCHANGED <<hd, wsa, file, srv, ctx, intruded>>

\* file.write(&cookie, format!("{}", addr)); drop(file)
BRegister(c) ==
    /\ cl[c].pc = "bregister"
    /\ file' = FileWrite(file, cl[c].cookie, FormatAddr(cl[c].port))
    /\ access' = Access(c)
    /\ holders' = Release(holders, c)
    /\ cl' = [cl EXCEPT ![c] = [@ EXCEPT !.pc = "binit", !.pos = 0]]
    /\ UNCHANGED <<hd, wsa, srv, ctx, intruded>>

\* let mut s = TcpStream::connect(addr)?; cookie.send(&mut s)?; Ok(Some(join_handle))
BInit(c) ==
    /\ cl[c].pc = "binit"
    /\ Listening(cl[c].port)
    /\ srv' = Push(ServerAt(cl[c].port), Conn(c, "init", cl[c].cookie))
    /\ cl' = [cl EXCEPT ![c] = Return(@, "handle")]
    /\ UNCHANGED <<hd, wsa, file, holders, ctx, access, intruded>>

BInitFail(c) ==
    /\ cl[c].pc = "binit"
    /\ ~Listening(cl[c].port)
    /\ cl' = [cl EXCEPT ![c] = Return(@, "io_error")]
    /\ UNCHANGED <<hd, wsa, file, holders, srv, ctx, access, intruded>>

(* ------------------------------ serve_listener ------------------------ *)

Head1(s) == Head(srv[s].backlog)

\* A latch that leaves the first connection in the queue of the accept loop.
SLatchKeeps(s) ==
    /\ s \in Servers
    /\ srv[s].state = "init"
    /\ srv[s].backlog # <<>>
    /\ ReceiveOk(Head1(s).data)
    /\ srv' = [srv EXCEPT ![s] = [@ EXCEPT !.state = "loop",
                  !.expected = Receive(Head1(s).data), !.init = {Head1(s)}]]
    /\ UNCHANGED <<hd, wsa, file, holders, cl, ctx, access, intruded>>

\* let cookie = { let mut i = l.accept()?; Cookie::receive(&mut i.0)? };
SLatch(s) ==
    /\ s \in Servers
    /\ srv[s].state = "init"
    /\ srv[s].backlog # <<>>
    /\ ReceiveOk(Head1(s).data)
    /\ srv' = [srv EXCEPT ![s] = [@ EXCEPT !.state = "loop",
                  !.expected = Receive(Head1(s).data), !.init = {Head1(s)},
                  !.backlog = Tail(@)]]
    /\ UNCHANGED <<hd, wsa, file, holders, cl, ctx, access, intruded>>

\* Cookie::receive fails on the first connection: serve_listener returns the error.
SLatchFail(s) ==
    /\ s \in Servers
    /\ srv[s].state = "init"
    /\ srv[s].backlog # <<>>
    /\ ~ReceiveOk(Head1(s).data)
    /\ srv' = [srv EXCEPT ![s] = Dead(@, "receive")]
    /\ UNCHANGED <<hd, wsa, file, holders, cl, ctx, access, intruded>>

\* A loop whose per-connection errors end the server.
AfterDropFatal(r) == Dead(r, "receive_async")

\* The accept loop's `continue`: the connection is dropped, the loop goes on.
AfterDrop(r) == [r EXCEPT !.lastdrop = {Head(r.backlog)}, !.backlog = Tail(@)]

\* Whether the accept loop hands a connection that wrote data to the handler.
Authenticated(expected, data) == ReceiveOk(data) /\ CookieEq(Receive(data), expected)

\* Accept loop: receive_async fails or the cookie differs: continue.
SDrop(s) ==
    /\ s \in Servers
    /\ srv[s].state = "loop"
    /\ srv[s].backlog # <<>>
    /\ ~Authenticated(srv[s].expected, Head1(s).data)
    /\ srv' = [srv EXCEPT ![s] = AfterDrop(@)]
    /\ UNCHANGED <<hd, wsa, file, holders, cl, ctx, access, intruded>>

\* Accept loop: the cookie matches: handler.handle(network), spawn_local(..).await.
SHandle(s) ==
    /\ s \in Servers
    /\ srv[s].state = "loop"
    /\ srv[s].backlog # <<>>
    /\ Authenticated(srv[s].expected, Head1(s).data)
    /\ srv' = [srv EXCEPT ![s] = [@ EXCEPT !.state = "await",
                  !.session = {Head1(s)}, !.backlog = Tail(@)]]
    /\ UNCHANGED <<hd, wsa, file, holders, cl, ctx, access, intruded>>

\* The awaited RPC task finishes: back to socket.accept().
SSessionEnd(s) ==
    /\ s \in Servers
    /\ srv[s].state = "await"
    /\ srv' = [srv EXCEPT ![s] = [@ EXCEPT !.state = "loop", !.session = {}]]
    /\ UNCHANGED <<hd, wsa, file, holders, cl, ctx, access, intruded>>

\* l.accept()? / socket.accept().await? fails: serve_listener returns the error.
SAcceptError(s) ==
    /\ s \in Servers
    /\ srv[s].state \in {"init", "loop"}
    /\ srv' = [srv EXCEPT ![s] = Dead(@, "accept")]
    /\ UNCHANGED <<hd, wsa, file, holders, cl, ctx, access, intruded>>

(* ------------------------------ other local processes ----------------- *)

FlipLast(c) == [c EXCEPT ![SIZE] = (@ + 128) % 256]

\* What such a process writes: a cookie, a cookie with one byte changed, a short write.
IntruderData ==
    {CookieBytes(1), FlipLast(CookieBytes(1)), SubSeq(CookieBytes(1), 1, SIZE - 1)}

\* Any local process may connect to a listening loopback port and write bytes.
Intruder(s, d) ==
    /\ s \in Servers
    /\ srv[s].state # "dead"
    /\ intruded < MaxIntruder
    /\ intruded' = intruded + 1
    /\ srv' = Push(s, Conn(0, "intruder", d))
    /\ UNCHANGED <<hd, wsa, file, holders, cl, ctx, access>>

(* ------------------------------ a CookieFile handle on its own -------- *)

Max(a, b) == IF a >= b THEN a ELSE b

\* Contents the file may have when the handle is opened: empty, partial (1 and
\* 31 bytes), a cookie and nothing else, a record.
HandleFiles ==
    {<<>>, <<7>>, SubSeq(CookieBytes(1), 1, SIZE - 1), CookieBytes(1), StaleRecord}

\* The data written after the cookie: address texts, nothing, a byte that is not UTF-8.
HandleTexts == {<<>>, <<255>>} \cup {FormatAddr(Port(s)) : s \in 1..MaxServers}

Call(op, cookie, data, res) == [op |-> op, cookie |-> cookie, data |-> data, res |-> res]

\* CookieFile::read: read_to_end from the handle's offset, which it leaves at the end.
HRead ==
    /\ Len(hd.log) < MaxOps
    /\ hd' = [pos |-> Max(hd.pos, Len(file)),
              log |-> Append(hd.log, Call("read", <<>>, <<>>, FileRead(file, hd.pos)))]
    /\ UNCHANGED <<file, holders, cl, srv, ctx, access, intruded, wsa>>

\* CookieFile::write: the offset ends after the data.
HWrite(k, a) ==
    /\ Len(hd.log) < MaxOps
    /\ file' = FileWrite(file, CookieBytes(k), a)
    /\ hd' = [pos |-> SIZE + Len(a),
              log |-> Append(hd.log, Call("write", CookieBytes(k), a, None))]
    /\ UNCHANGED <<holders, cl, srv, ctx, access, intruded, wsa>>

\* CookieFile::clear: set_len(0); the offset stays where it was.
HClear ==
    /\ Len(hd.log) < MaxOps
    /\ file' = FileClear(file)
    /\ hd' = [hd EXCEPT !.log = Append(@, Call("clear", <<>>, <<>>, None))]
    /\ UNCHANGED <<holders, cl, srv, ctx, access, intruded, wsa>>

(* ------------------------------ Winsock (cfg(windows)) ---------------- *)

\* What WSAStartup returns: 0, or an error code (WSASYSNOTREADY).
WsaRets == {0, 10091}

\* static WSA_INITED: AtomicBool = AtomicBool::new(false), before the constructors run.
WsaLoad == [phase |-> "load", inited |-> FALSE, ret |-> 0, startups |-> 0, cleanups |-> 0]

\* WSA_INITED.store(ret != 0, Ordering::SeqCst)
WsaInited(ret) == ret # 0

\* #[ctor] wsa_startup, run once before main.
WsaStartup(ret) ==
    /\ wsa.phase = "load"
    /\ wsa' = [wsa EXCEPT !.phase = "main", !.ret = ret, !.inited = WsaInited(ret),
                          !.startups = @ + 1]
    /\ UNCHANGED <<file, holders, cl, srv, ctx, access, intruded, hd>>

\* #[dtor] wsa_cleanup, run once when the process exits.
WsaCleanup ==
    /\ wsa.phase = "main"
    /\ wsa' = [wsa EXCEPT !.phase = "exit",
                          !.cleanups = IF wsa.inited THEN @ + 1 ELSE @]
    /\ UNCHANGED <<file, holders, cl, srv, ctx, access, intruded, hd>>

(* ------------------------------ specification ------------------------- *)

ClientStep(c) ==
    \/ \E p \in Policies : CallConnect(c, p)
    \/ CallBootstrap(c)
    \/ COpen(c)
    \/ CReuse(c)
    \/ CStale(c)
    \/ \E k \in CookieIds, forkOk \in BOOLEAN, spawnOk \in BOOLEAN :
          CStart(c, k, forkOk, spawnOk)
    \/ \E forkOk \in BOOLEAN, spawnOk \in BOOLEAN : CStartFail(c, forkOk, spawnOk)
    \/ CInit(c)
    \/ CInitFail(c)
    \/ CRegister(c)
    \/ CSession(c)
    \/ CSessionFail(c)
    \/ BRunning(c)
    \/ \E k \in CookieIds : BStart(c, k)
    \/ BStartFail(c)
    \/ BRegister(c)
    \/ BInit(c)
    \/ BInitFail(c)

ServerIds == 1..MaxServers

ServerStep(s) ==
    \/ SLatch(s)
    \/ SHandle(s)
    \/ SSessionEnd(s)
    \/ SAcceptError(s)

\* The two branches of serve_listener that reject a connection.  A caller always
\* whose send succeeds writes a whole cookie, the one its server latched or will
\* latch, so these are taken only when some other process connects or a send fails.
RejectStep(s) ==
    \/ SLatchFail(s)
    \/ SDrop(s)

\* Callers and the servers they start.
Next ==
    \/ \E c \in Clients : ClientStep(c)
    \/ \E s \in ServerIds : ServerStep(s)

Spec == Init /\ [][Next]_vars

\* A caller that has made its call takes its next step.
Proceed(c) == cl[c].pc # "idle" /\ ClientStep(c)

\* The callers, and servers that do nothing but fail: what a server does with
\* the connections it gets has no effect on the callers.
NextCalls ==
    \/ \E c \in Clients : ClientStep(c)
    \/ \E s \in ServerIds : SAcceptError(s)

SpecCalls == Init /\ [][NextCalls]_vars

\* Every caller's thread keeps running: a call in progress is not abandoned, and
\* a caller blocked in lock_exclusive gets the lock once it stays free.
FairCalls == SpecCalls /\ \A c \in Clients : WF_vars(Proceed(c))

\* The callers starting from an empty (or absent) rendezvous file.
InitCold == Init /\ file = <<>>

SpecCold == InitCold /\ [][NextCalls]_vars

\* One caller.  It starts with no server and a file from F, or with an external
\* server that an earlier caller started and registered and that is in its accept loop.
InitOne(F) ==
    /\ holders = {}
    /\ cl = [c \in Clients |-> Idle]
    /\ ctx \in Contexts
    /\ access = TRUE
    /\ intruded = 0
    /\ hd = NoHandle
    /\ \/ /\ file \in F
          /\ srv = <<>>
       \/ /\ file = FileWrite(<<>>, CookieBytes(1), FormatAddr(Port(1)))
          /\ srv = <<[NewServer(TRUE, ForkArgv("exe", ctx)) EXCEPT
                         !.state = "loop", !.expected = CookieBytes(1),
                         !.init = {Conn(0, "init", CookieBytes(1))}]>>

InitAuth == InitOne({<<>>}) /\ wsa = NoWsa

\* One caller, the servers it starts, and other local processes connecting to them.
NextAuth ==
    \/ ClientStep(1)
    \/ \E s \in ServerIds : ServerStep(s) \/ RejectStep(s)
    \/ \E s \in ServerIds, d \in IntruderData : Intruder(s, d)

SpecAuth == InitAuth /\ [][NextAuth]_vars

\* The server's thread keeps running its accept loop.
FairAuth ==
    SpecAuth /\ \A s \in ServerIds : WF_vars(SHandle(s)) /\ WF_vars(SDrop(s))

\* One caller whose do_connect on an existing record may fail, and the servers.
NextIO ==
    \/ ClientStep(1)
    \/ \E sent \in BOOLEAN : CReuseFail(1, sent)
    \/ \E s \in ServerIds : ServerStep(s) \/ SDrop(s)

SpecIO == InitAuth /\ [][NextIO]_vars

\* A CookieFile handle used on its own by the one process that has the file open.
InitFile ==
    /\ file \in HandleFiles
    /\ hd = NoHandle
    /\ holders = {}
    /\ cl = [c \in Clients |-> Idle]
    /\ srv = <<>>
    /\ ctx = [ipc_policy |-> "Robust", home |-> "/home", lib |-> "/lib", ephemeral |-> FALSE]
    /\ access = TRUE
    /\ intruded = 0
    /\ wsa = NoWsa

NextFile ==
    \/ HRead
    \/ \E k \in CookieIds, a \in HandleTexts : HWrite(k, a)
    \/ HClear

SpecFile == InitFile /\ [][NextFile]_vars

\* A Windows process from load to exit: the constructor, one caller's work, the
\* destructor.  Servers in other processes run on; threads stop at exit.
InitWsa == InitOne({<<>>}) /\ wsa = WsaLoad

NextWsa ==
    \/ \E ret \in WsaRets : WsaStartup(ret)
    \/ WsaCleanup
    \/ wsa.phase = "main" /\ ClientStep(1)
    \/ \E s \in ServerIds :
          /\ s \in Servers
          /\ srv[s].external \/ wsa.phase = "main"
          /\ ServerStep(s)

SpecWsa == InitWsa /\ [][NextWsa]_vars

\* The callers and their servers, the file possibly holding a record of an earlier
\* run whose port is assigned again.
InitAgree ==
    /\ file \in InitFiles \cup {ReusedPortRecord}
    /\ holders = {}
    /\ cl = [c \in Clients |-> Idle]
    /\ srv = <<>>
    /\ ctx \in Contexts
    /\ ctx.ephemeral = FALSE
    /\ access = TRUE
    /\ intruded = 0
    /\ hd = NoHandle
    /\ wsa = NoWsa

SpecAgree == InitAgree /\ [][Next]_vars

\* One caller that finds the file empty, partial, holding a cookie only, or a record.
InitTrunc == InitOne(HandleFiles) /\ wsa = NoWsa

NextOne ==
    \/ ClientStep(1)
    \/ \E s \in ServerIds : ServerStep(s)

SpecTrunc == InitTrunc /\ [][NextOne]_vars

(* ------------------------------ properties ---------------------------- *)

RECURSIVE SumInv(_)
\* The number of launcher invocations (start(true), start(false)) made by the callers in S.
SumInv(S) ==
    IF S = {} THEN 0
    ELSE LET c == CHOOSE x \in S : TRUE IN Len(cl[c].inv) + SumInv(S \ {c})

\* The file holds a record whose address parses and is being listened on.
LiveRecord(f) ==
    LET r == Extract(f) IN
    r.some /\ ParseSocketAddr(r.rest) # -1 /\ Listening(ParseSocketAddr(r.rest))

RecordPort(f) == ParseSocketAddr(Extract(f).rest)

\* Every caller called connect, found no record to restart from, and has its session.
AllConnected ==
    \A c \in Clients :
        /\ cl[c].op = "connect"
        /\ cl[c].pc = "done"
        /\ cl[c].res = "session"
        /\ cl[c].restarts = 0

SamePort == \A c, d \in Clients : cl[c].port = cl[d].port

\* C1 as stated: for every policy, when all N callers have connected against an
\* empty rendezvous file, exactly one launcher invocation occurred in total and
\* all N sessions are to the same server address.
C1Original == AllConnected => (SumInv(Clients) = 1 /\ SamePort)

\* C1 amended: when all N callers have connected against an empty rendezvous file,
\* (a) if every server started is external and still listening, exactly one
\* launcher invocation occurred and all N sessions are to the same address;
\* (b) if all N callers passed Internal, each launched its own server: N
\* invocations and N different addresses.
C1AtMostOneStart ==
    AllConnected =>
        /\ (\A s \in Servers : srv[s].external /\ srv[s].state # "dead")
              => (SumInv(Clients) = 1 /\ SamePort)
        /\ (\A c \in Clients : cl[c].arg = "Internal")
              => /\ SumInv(Clients) = NClients
                 /\ \A c, d \in Clients : c # d => cl[c].port # cl[d].port

C1Witness ==
    /\ AllConnected
    /\ \A s \in Servers : srv[s].external /\ srv[s].state # "dead"
    /\ SumInv(Clients) = 1
    /\ \E c \in Clients : cl[c].inv = <<>>

\* C2: a server that has latched its expected cookie hands a connection to the
\* handler only if the first 32 bytes written on it equal the expected cookie;
\* a connection it drops wrote fewer than 32 bytes or 32 bytes that differ.
C2Authentication ==
    \A s \in Servers :
        /\ \A conn \in srv[s].session :
              Len(conn.data) >= SIZE /\ SubSeq(conn.data, 1, SIZE) = srv[s].expected
        /\ \A conn \in srv[s].lastdrop :
              Len(conn.data) < SIZE \/ SubSeq(conn.data, 1, SIZE) # srv[s].expected

\* A server has dropped a connection whose 32 bytes differ from its cookie in the
\* last byte only, and has handed another one to the handler.
C2Witness ==
    \E s \in Servers :
        /\ srv[s].session # {}
        /\ \E conn \in srv[s].lastdrop :
              /\ Len(conn.data) = SIZE
              /\ SubSeq(conn.data, 1, SIZE - 1) = SubSeq(srv[s].expected, 1, SIZE - 1)

InCriticalSection(c) == cl[c].pc \in {"read", "init", "register", "bread", "bregister"}

\* C3: at most one caller of connect_with_policy or bootstrap holds the lock of
\* the rendezvous file, a caller holds it exactly between its open and its
\* drop(file) or return, and every read, write and clear of the file so far
\* was made by the caller holding the lock.
C3LockExclusion ==
    /\ Cardinality(holders) <= 1
    /\ access
    /\ \A c \in Clients : c \in holders <=> InCriticalSection(c)

\* One caller is about to write the record while another waits in open.
C3Witness ==
    \E c, d \in Clients :
        /\ c # d
        /\ c \in holders
        /\ cl[c].pc \in {"register", "bregister"}
        /\ cl[d].pc \in {"open", "bopen"}

\* Caller d has completed a cold start of the external server the record names.
ColdStarted(d, f) ==
    /\ cl[d].pc = "done"
    /\ cl[d].res = "session"
    /\ cl[d].inv # <<>>
    /\ cl[d].external
    /\ cl[d].port = RecordPort(f)

\* C4: once a cold-start connect has registered an external server, a later
\* connect by another caller that finds the record while the server is
\* listening launches nothing, leaves the file unchanged, and opens its session
\* to the recorded address, writing the recorded cookie on it.
C4Reuse ==
    [][\A c \in Clients :
          ( /\ cl[c].op = "connect"
            /\ cl[c].pc = "read"
            /\ cl'[c] # cl[c]
            /\ LiveRecord(file)
            /\ \E d \in Clients \ {c} : ColdStarted(d, file) )
          => /\ Len(srv') = Len(srv)
             /\ file' = file
             /\ cl'[c].inv = cl[c].inv
             /\ cl'[c].pc = "done"
             /\ cl'[c].res = "session"
             /\ cl'[c].port = RecordPort(file)
             /\ cl'[c].cookie = Extract(file).cookie
             /\ srv'[ServerAt(RecordPort(file))].backlog =
                   Append(srv[ServerAt(RecordPort(file))].backlog,
                          [from |-> c, kind |-> "session", data |-> Extract(file).cookie])
      ]_vars

C4Witness ==
    \E c, d \in Clients :
        /\ c # d
        /\ ColdStarted(d, file)
        /\ LiveRecord(file)
        /\ cl[c].op = "connect"
        /\ cl[c].pc = "done"
        /\ cl[c].res = "session"
        /\ cl[c].inv = <<>>
        /\ cl[c].port = cl[d].port
        /\ cl[c].cookie = cl[d].cookie

\* C5: when connect_with_policy has started a server from an empty rendezvous
\* file and releases the lock, the file holds exactly the 32 cookie bytes
\* followed by the text 127.0.0.1:<port> of the server's address if the server
\* is external, and is still empty if it is in-process (Internal, or the
\* fallback of Robust).
C5Registration ==
    [][\A c \in Clients :
          (cl[c].pc = "register" /\ cl'[c].pc = "session" /\ file = <<>>)
          => IF cl[c].external
             THEN /\ Extract(file').some
                  /\ Extract(file').cookie = cl[c].cookie
                  /\ Extract(file').rest = Loopback \o <<58>> \o Decimal(cl[c].port)
                  /\ ParseSocketAddr(Extract(file').rest) = cl[c].port
                  /\ Len(file') = SIZE + Len(Loopback) + 1 + Len(Decimal(cl[c].port))
             ELSE file' = <<>>
      ]_vars

\* One caller got the in-process fallback of Robust and left the file empty;
\* another then started an external server and has just registered it.
C5Witness ==
    \E c, d \in Clients :
        /\ cl[c].pc = "session"
        /\ cl[c].external
        /\ file = cl[c].cookie \o FormatAddr(cl[c].port)
        /\ cl[d].pc = "done"
        /\ cl[d].res = "session"
        /\ ~cl[d].external
        /\ Len(cl[d].inv) = 2

\* C6: a connect_with_policy(External) that found a stale record and restarted
\* launches with the policy it was passed: every launcher it invokes is the
\* external one, whatever the context's default policy is.
C6PolicyKept ==
    \A c \in Clients :
        (cl[c].op = "connect" /\ cl[c].arg = "External" /\ cl[c].restarts > 0)
        => /\ \A i \in DOMAIN cl[c].inv : cl[c].inv[i].external
           /\ cl[c].pc = "session" => cl[c].external

\* C7: in every invocation of connect_with_policy, under Internal only
\* start(false) and under External only start(true) is called; under Robust
\* start(true) is called first and start(false) is called if and only if
\* start(true) returned an error; the call returns a launch error only if every
\* launcher its policy allows has failed.
C7RobustFallback ==
    \A c \in Clients :
        cl[c].op = "connect" =>
        LET v == cl[c].inv
            n == Len(cl[c].inv)
        IN  /\ \A i \in DOMAIN v :
                  /\ v[i].policy = "Internal" => ~v[i].external
                  /\ v[i].policy = "External" => v[i].external
                  /\ (v[i].policy = "Robust" /\ ~v[i].external)
                        => (i > 1 /\ v[i - 1] = Invocation("Robust", TRUE, FALSE))
                  /\ (v[i].policy = "Robust" /\ v[i].external /\ ~v[i].ok)
                        => (i < n /\ v[i + 1].policy = "Robust" /\ ~v[i + 1].external)
            /\ cl[c].res = "launch_error"
                  => /\ n > 0
                     /\ ~v[n].ok
                     /\ v[n].policy = "Robust"
                           => (n > 1 /\ v[n - 1] = Invocation("Robust", TRUE, FALSE)
                                     /\ ~v[n].external)
            /\ (cl[c].pc = "done" /\ n > 0 /\ ~v[n].ok) => cl[c].res = "launch_error"

\* fork failed, the thread was spawned, and the caller has its session.
C7Witness ==
    \E c \in Clients :
        /\ cl[c].pc = "done"
        /\ cl[c].res = "session"
        /\ cl[c].inv = <<Invocation("Robust", TRUE, FALSE), Invocation("Robust", FALSE, TRUE)>>
        /\ \E d \in Clients : cl[d].res = "launch_error" /\ Len(cl[d].inv) = 2

\* C8: dropping a connection (cookie mismatch or failed cookie read) leaves the
\* server in its accept loop with the same expected cookie; a server that has
\* latched its cookie terminates only on an accept error; and after a drop, a
\* connection at the head of the queue that presents the expected cookie is
\* eventually handed to the handler unless the listener fails.
C8NeverFatal ==
    /\ [][\A s \in ServerIds :
             s \in Servers =>
             /\ (srv[s].state \in {"loop", "await"} /\ srv'[s].state = "dead")
                   => srv'[s].why = "accept"
             /\ (srv[s].state = "loop" /\ srv'[s].lastdrop # srv[s].lastdrop)
                   => (srv'[s].state = "dead" /\ srv'[s].why = "accept")
                      \/ ( /\ srv'[s].state = "loop"
                           /\ srv'[s].expected = srv[s].expected
                           /\ srv'[s].lastdrop = {Head(srv[s].backlog)}
                           /\ srv'[s].backlog = Tail(srv[s].backlog) )
         ]_vars
    /\ \A s \in ServerIds :
          ( /\ s \in Servers
            /\ srv[s].state = "loop"
            /\ srv[s].lastdrop # {}
            /\ srv[s].backlog # <<>>
            /\ Head(srv[s].backlog).data = srv[s].expected )
          ~> ( /\ s \in Servers
               /\ \/ srv[s].state = "dead"
                  \/ srv[s].state = "await" /\ srv[s].session # {} )

\* A server has dropped a connection and afterwards handed one to the handler.
C8Witness ==
    \E s \in Servers :
        /\ srv[s].state = "await"
        /\ srv[s].lastdrop # {}
        /\ \E conn \in srv[s].session : conn.data = srv[s].expected

\* C9: bootstrap() returns "already running" without launching anything or
\* changing the file if the record names a server that accepts the connection
\* and the cookie; otherwise it starts exactly one in-process server (never an
\* external one), writes that server's cookie and address into the file, sends
\* the cookie to it and returns the handle; a connect that then finds this
\* record while the server listens uses it.
C9Bootstrap ==
    [][\A c \in Clients :
          /\ (cl[c].op = "bootstrap" /\ cl[c].pc = "bread" /\ cl'[c] # cl[c])
                => IF LiveRecord(file)
                   THEN /\ cl'[c].pc = "done"
                        /\ cl'[c].res = "running"
                        /\ cl'[c].inv = <<>>
                        /\ Len(srv') = Len(srv)
                        /\ file' = file
                   ELSE \/ /\ cl'[c].pc = "done"
                           /\ cl'[c].res = "launch_error"
                           /\ Len(srv') = Len(srv)
                           /\ file' = file
                        \/ /\ cl'[c].pc = "bregister"
                           /\ Len(srv') = Len(srv) + 1
                           /\ ~srv'[Len(srv')].external
                           /\ cl'[c].port = Port(Len(srv'))
                           /\ Len(cl'[c].inv) = 1
                           /\ ~cl'[c].inv[1].external
          /\ (cl[c].op = "bootstrap" /\ cl[c].pc = "bregister" /\ cl'[c] # cl[c])
                => /\ cl'[c].pc = "binit"
                   /\ Len(srv') = Len(srv)
                   /\ Extract(file').cookie = cl[c].cookie
                   /\ Extract(file').rest = Loopback \o <<58>> \o Decimal(cl[c].port)
          /\ (cl[c].op = "bootstrap" /\ cl[c].pc = "binit" /\ cl'[c].res = "handle")
                => /\ Len(srv') = Len(srv)
                   /\ srv'[ServerAt(cl[c].port)].backlog =
                         Append(srv[ServerAt(cl[c].port)].backlog,
                                [from |-> c, kind |-> "init", data |-> cl[c].cookie])
          /\ \A b \in Clients \ {c} :
                ( /\ cl[c].op = "connect" /\ cl[c].pc = "read" /\ cl'[c] # cl[c]
                  /\ cl[b].op = "bootstrap" /\ cl[b].pc \in {"binit", "done"}
                  /\ cl[b].inv # <<>>
                  /\ file = cl[b].cookie \o Loopback \o <<58>> \o Decimal(cl[b].port)
                  /\ Listening(cl[b].port) )
                => /\ cl'[c].pc = "done"
                   /\ cl'[c].res = "session"
                   /\ cl'[c].port = cl[b].port
                   /\ cl'[c].cookie = cl[b].cookie
                   /\ Len(srv') = Len(srv)
      ]_vars

\* bootstrap has returned the handle of its in-process server, and a later
\* connect has a session to that server without launching anything.
C9Witness ==
    \E b, c \in Clients :
        /\ cl[b].op = "bootstrap" /\ cl[b].res = "handle"
        /\ ~srv[ServerAt(cl[b].port)].external
        /\ cl[c].op = "connect" /\ cl[c].res = "session"
        /\ cl[c].inv = <<>>
        /\ cl[c].port = cl[b].port
        /\ cl[c].cookie = cl[b].cookie

\* C10: the argv the process launcher gives the child is exactly
\* <exe> --home <H> --lib <L> --ephemeral true|false, and Server::context
\* accepts it.
C10ArgvAgreement ==
    \A s \in Servers :
        (srv[s].external /\ srv[s].state # "dead")
        => /\ Context(srv[s].argv) = "ok"
           /\ srv[s].argv = <<"exe", "--home", ctx.home, "--lib", ctx.lib,
                              "--ephemeral", BoolToString(ctx.ephemeral)>>

\* C11: on one handle, write(c, a) followed by read() yields Some((c, a)),
\* whatever reads, writes and clears were made on the handle before the write.
C11RoundTrip ==
    \A i \in 1..(Len(hd.log) - 1) :
        (hd.log[i].op = "write" /\ hd.log[i + 1].op = "read")
        => hd.log[i + 1].res =
              [some |-> TRUE, cookie |-> hd.log[i].cookie, rest |-> hd.log[i].data]

\* C12: read() on a freshly opened handle returns None if and only if the file
\* is shorter than 32 bytes; otherwise it returns the first 32 bytes as the
\* cookie and the remainder as the rest, and cookie followed by rest is the
\* file content.  connect treats a file of 1..31 bytes as it treats an empty
\* one: it launches a server (or returns the launch error) without clearing or
\* restarting, and the record it then writes replaces the partial bytes.
C12Truncation ==
    /\ [](\A c \in Clients :
            cl[c].pc \in {"read", "bread"} =>
            LET r == FileRead(file, cl[c].pos) IN
                /\ cl[c].pos = 0
                /\ ~r.some <=> Len(file) < SIZE
                /\ r.some => /\ r.cookie = SubSeq(file, 1, SIZE)
                             /\ Len(r.cookie) = SIZE
                             /\ r.cookie \o r.rest = file)
    /\ [][\A c \in Clients :
             /\ ( /\ cl[c].op = "connect" /\ cl[c].pc = "read"
                  /\ Len(file) < SIZE /\ cl'[c] # cl[c] )
                   => /\ file' = file
                      /\ cl'[c].restarts = cl[c].restarts
                      /\ \/ /\ cl'[c].pc = "init"
                            /\ Len(srv') = Len(srv) + 1
                            /\ c \in holders'
                         \/ /\ cl'[c].pc = "done"
                            /\ cl'[c].res = "launch_error"
                            /\ srv' = srv
             /\ (cl[c].pc = "register" /\ cl'[c].pc = "session" /\ Len(file) < SIZE)
                   => file' = IF cl[c].external
                              THEN cl[c].cookie \o FormatAddr(cl[c].port)
                              ELSE file
       ]_vars

\* A connect found 31 bytes in the file and has launched a server.
C12Witness ==
    /\ cl[1].op = "connect"
    /\ cl[1].pc = "init"
    /\ Len(file) = SIZE - 1
    /\ Len(srv) = 1

\* C13: when connect_with_policy or bootstrap returns, with a session, with
\* "already running" or with an error, the caller does not hold the lock; a
\* restart after a stale record releases the lock and takes it again only
\* through open, when nobody holds it; and a caller blocked in open eventually
\* gets the lock, provided the callers keep taking their steps.
C13LockRelease ==
    /\ [](\A c \in Clients : cl[c].pc = "done" => c \notin holders)
    /\ [][\A c \in Clients :
             /\ (cl[c].pc # "done" /\ cl'[c].pc = "done") => c \notin holders'
             /\ cl'[c].restarts > cl[c].restarts
                   => (c \in holders /\ c \notin holders' /\ cl'[c].pc = "open")
             /\ (c \notin holders /\ c \in holders')
                   => (holders = {} /\ cl[c].pc \in {"open", "bopen"})
       ]_vars
    /\ \A c \in Clients : (cl[c].pc \in {"open", "bopen"}) ~> (c \in holders)

\* A caller returned a launch error after a restart, another returned
\* "already running", and both have released the lock.
C13Witness ==
    \E c, d \in Clients :
        /\ cl[c].pc = "done" /\ cl[c].res = "launch_error" /\ cl[c].restarts = 1
        /\ cl[d].pc = "done" /\ cl[d].res \in {"running", "io_error", "session"}
        /\ holders = {}

\* The file is a full record: a cookie followed by the text of the address of
\* a listener bound by start(), and nothing else.
FullRecord(f) ==
    \E s \in Servers, k \in CookieIds :
        /\ f = CookieBytes(k) \o Loopback \o <<58>> \o Decimal(Port(s))
        /\ Len(f) = SIZE + Len(Loopback) + 1 + Len(Decimal(Port(s)))
        /\ ParseSocketAddr(Extract(f).rest) = Port(s)

\* C14: starting from an empty rendezvous file, whenever no caller holds the
\* lock the file is empty or holds exactly 32 cookie bytes followed by the
\* text 127.0.0.1:<port> of an address bound by a launcher; no partial record
\* and no bytes of an older, longer record are left.
C14WellFormed == holders = {} => (file = <<>> \/ FullRecord(file))

\* bootstrap has overwritten the record of a dead external server (port 10000)
\* with the shorter record of its own server (port 9999), without a clear.
C14Witness ==
    \E a, b \in Clients :
        /\ holders = {}
        /\ \A c \in Clients : cl[c].restarts = 0
        /\ cl[a].op = "connect" /\ cl[a].external /\ cl[a].port = Port(1)
        /\ cl[a].pc = "done" /\ cl[a].res = "session"
        /\ srv[1].state = "dead"
        /\ cl[b].op = "bootstrap" /\ cl[b].port = Port(2)
        /\ cl[b].pc \in {"binit", "done"}
        /\ file = cl[b].cookie \o FormatAddr(Port(2))
        /\ Len(FormatAddr(Port(2))) < Len(FormatAddr(Port(1)))

\* C15: while one authenticated session is open, the accept loop keeps
\* accepting: a further connection that presents the expected cookie can be
\* handed to the handler without waiting for the open session to end.
C15ConcurrentSessions ==
    \A s \in ServerIds :
        ( /\ s \in Servers
          /\ srv[s].session # {}
          /\ srv[s].backlog # <<>>
          /\ Authenticated(srv[s].expected, Head(srv[s].backlog).data) )
        => ENABLED SHandle(s)

\* C16: when connect finds a record, whichever step of using it fails (parsing
\* the address, the TCP connect, sending the cookie, promoting the stream),
\* connect clears the file, releases the lock and restarts; it does not return
\* the error to the caller.
C16LocalRecovery ==
    [][\A c \in Clients :
          ( /\ cl[c].op = "connect"
            /\ cl[c].pc = "read"
            /\ FileRead(file, cl[c].pos).some
            /\ cl'[c] # cl[c] )
          => \/ cl'[c].pc = "done" /\ cl'[c].res = "session"
             \/ /\ cl'[c].pc = "open"
                /\ cl'[c].restarts = cl[c].restarts + 1
                /\ file' = <<>>
                /\ c \notin holders'
      ]_vars

\* Caller c has cold-started, in connect_with_policy, a server that still listens.
ColdStarter(c) ==
    /\ cl[c].op = "connect"
    /\ cl[c].inv # <<>>
    /\ cl[c].pc \in {"init", "register", "session", "done"}
    /\ Listening(cl[c].port)

\* The first connection made to server s, if any: the one its first accept
\* returns or has returned.
FirstConn(s) ==
    IF srv[s].state = "init"
    THEN IF srv[s].backlog = <<>> THEN {} ELSE {Head(srv[s].backlog)}
    ELSE srv[s].init

\* C17: in a cold start by connect_with_policy the server is launched, then the
\* initialization connection is opened and the cookie sent on it, then the
\* record is written (external server), then the lock is released, then the
\* session is opened; so whenever the file names the server's address, the
\* first connection made to that server is the starter's initialization
\* connection, and nobody else connected before it.
C17ColdStartOrder ==
    \A c \in Clients :
        ColdStarter(c) =>
        LET s == ServerAt(cl[c].port)
            first == FirstConn(s)
            mine == {[from |-> c, kind |-> "init", data |-> cl[c].cookie]}
            named == Extract(file).some /\ RecordPort(file) = cl[c].port
        IN  /\ cl[c].pc = "init" => (c \in holders /\ first = {} /\ ~named)
            /\ cl[c].pc = "register" => (c \in holders /\ first = mine /\ ~named)
            /\ cl[c].pc \in {"session", "done"} => (c \notin holders /\ first = mine)
            /\ named => (first = mine /\ cl[c].external /\ cl[c].pc \in {"session", "done"})
            /\ (\E i \in DOMAIN srv[s].backlog : srv[s].backlog[i].kind = "session")
                  => first = mine

\* Another caller has read the record and connected while the server has not
\* yet accepted anything: the starter's initialization connection is first in
\* the queue, the other caller's session connection behind it.
C17Witness ==
    \E c, d \in Clients :
        /\ c # d
        /\ ColdStarter(c)
        /\ cl[c].external
        /\ Extract(file).some /\ RecordPort(file) = cl[c].port
        /\ srv[ServerAt(cl[c].port)].state = "init"
        /\ Head(srv[ServerAt(cl[c].port)].backlog) =
              [from |-> c, kind |-> "init", data |-> cl[c].cookie]
        /\ \E i \in DOMAIN srv[ServerAt(cl[c].port)].backlog :
              srv[ServerAt(cl[c].port)].backlog[i] =
                 [from |-> d, kind |-> "session", data |-> cl[c].cookie]

\* C18: with any number of concurrent callers of connect and bootstrap, as long
\* as every server started so far is still reachable a connect call has
\* restarted at most once (its pass after clearing a stale record finds the file
\* empty or a live record written by another caller), and every connect call
\* returns.
C18BoundedRestart ==
    /\ []((\A s \in Servers : srv[s].state # "dead")
             => \A c \in Clients : cl[c].restarts <= 1)
    /\ \A c \in Clients :
          (cl[c].op = "connect" /\ cl[c].pc # "done") ~> (cl[c].pc = "done")

\* A connect cleared the stale record, restarted once, found on its next pass
\* the live record another caller had written meanwhile, and has its session.
C18Witness ==
    \E c, d \in Clients :
        /\ c # d
        /\ \A s \in Servers : srv[s].state # "dead"
        /\ cl[c].op = "connect" /\ cl[c].restarts = 1 /\ cl[c].inv = <<>>
        /\ cl[c].pc = "done" /\ cl[c].res = "session"
        /\ cl[d].inv # <<>> /\ cl[d].port = cl[c].port

\* C19: a server takes its expected cookie once, from the first connection it
\* accepts, before entering the accept loop: until then it has handed over and
\* dropped nothing; the step that latches reads the 32 bytes of the connection
\* at the head of the queue and removes that connection without handing it to
\* the handler; afterwards the expected cookie and the latched connection never
\* change, and every hand-over takes the connection then at the head of the
\* queue.
C19CookieLatching ==
    /\ [](\A s \in ServerIds :
            s \in Servers =>
            /\ srv[s].state = "init"
                  => /\ srv[s].expected = <<>>
                     /\ srv[s].init = {}
                     /\ srv[s].session = {}
                     /\ srv[s].lastdrop = {}
            /\ srv[s].state \in {"loop", "await"}
                  => /\ Len(srv[s].expected) = SIZE
                     /\ Cardinality(srv[s].init) = 1
                     /\ \A i \in srv[s].init : SubSeq(i.data, 1, SIZE) = srv[s].expected)
    /\ [][\A s \in ServerIds :
             s \in Servers =>
             /\ (srv[s].state = "init" /\ srv'[s].state = "loop")
                   => /\ srv[s].backlog # <<>>
                      /\ srv'[s].expected = SubSeq(Head(srv[s].backlog).data, 1, SIZE)
                      /\ srv'[s].init = {Head(srv[s].backlog)}
                      /\ srv'[s].backlog = Tail(srv[s].backlog)
                      /\ srv'[s].session = {}
             /\ (srv[s].state \in {"loop", "await"} /\ srv'[s].state # "dead")
                   => /\ srv'[s].expected = srv[s].expected
                      /\ srv'[s].init = srv[s].init
                      /\ srv'[s].state \in {"loop", "await"}
             /\ (srv'[s].session # srv[s].session /\ srv'[s].session # {})
                   => /\ srv[s].state = "loop"
                      /\ srv'[s].session = {Head(srv[s].backlog)}
                      /\ srv'[s].backlog = Tail(srv[s].backlog)
       ]_vars

\* A server started by the caller has latched the cookie from the caller's
\* initialization connection and is serving the caller's session connection.
C19Witness ==
    \E s \in Servers :
        /\ srv[s].state = "await"
        /\ srv[s].init = {[from |-> 1, kind |-> "init", data |-> srv[s].expected]}
        /\ srv[s].session = {[from |-> 1, kind |-> "session", data |-> srv[s].expected]}

\* C20: WSA_INITED records whether WSAStartup succeeded (returned 0); at
\* process exit WSACleanup is called if and only if startup succeeded; startup
\* and cleanup each run at most once per process.
C20WinsockGuard ==
    /\ wsa.startups <= 1
    /\ wsa.cleanups <= 1
    /\ wsa.startups = 1 => (wsa.inited <=> wsa.ret = 0)
    /\ wsa.phase = "exit" => (wsa.cleanups = 1 <=> wsa.ret = 0)

\* C21: for a server started by bootstrap(), the first connection made to it,
\* the one it consumes as its initialization connection, is the one opened by
\* bootstrap itself; a connection of a caller that read the record bootstrap
\* registered is never the first one, so it is never consumed by the latch.
C21BootstrapInit ==
    \A b \in Clients :
        ( /\ cl[b].op = "bootstrap"
          /\ cl[b].inv # <<>>
          /\ cl[b].pc \in {"bregister", "binit", "done"}
          /\ Listening(cl[b].port) )
        => \A x \in FirstConn(ServerAt(cl[b].port)) :
              x = [from |-> b, kind |-> "init", data |-> cl[b].cookie]

\* C22: whenever the file holds a record naming the address of a server that
\* has latched its expected cookie, the expected cookie is the record's cookie;
\* and every connection queued at a server that has latched presents the
\* expected cookie, so no caller that used connect or bootstrap is rejected by
\* the cookie comparison.
C22CookieAgreement ==
    \A s \in Servers :
        srv[s].state \in {"loop", "await"} =>
        /\ (Extract(file).some /\ RecordPort(file) = Port(s))
              => srv[s].expected = Extract(file).cookie
        /\ \A i \in DOMAIN srv[s].backlog :
              Authenticated(srv[s].expected, srv[s].backlog[i].data)

\* The record of a bootstrapped server is in the file, the server latched its
\* cookie from the connection of a caller that had read the record, and
\* bootstrap's own connection is queued in the accept loop.
C22Witness ==
    \E s \in Servers, b, c \in Clients :
        /\ b # c
        /\ cl[b].op = "bootstrap" /\ cl[b].port = Port(s) /\ cl[b].inv # <<>>
        /\ srv[s].state = "loop"
        /\ file = cl[b].cookie \o FormatAddr(Port(s))
        /\ srv[s].init = {[from |-> c, kind |-> "session", data |-> cl[b].cookie]}
        /\ srv[s].backlog = <<[from |-> b, kind |-> "init", data |-> cl[b].cookie]>>

====
